---- MODULE Spec2Model ----
(***************************************************************************)
(* Model of libraries/ts-command-line/src/CommandLineParameter.ts: the     *)
(* parameter class hierarchy, the validation done by its constructors and  *)
(* the value slot written by _setValue and read by the value accessor.     *)
(*                                                                         *)
(* A JavaScript string is a sequence of one-character strings.  The value  *)
(* undefined is the one-element sequence <<"undefined">>, which is not a   *)
(* string because "undefined" is not a character.                          *)
(***************************************************************************)
EXTENDS Integers, Sequences, FiniteSets, TLC

VARIABLES pc, definition, parameter, error, _value, setValueCalls

vars == <<pc, definition, parameter, error, _value, setValueCalls>>

\* pc            where the definition stands: "defined", "constructed", "failed"
\* definition    the definition object handed to the constructor
\* parameter     the constructed object (NoObject until a constructor returns)
\* error         what the constructor threw (NoError if nothing)
\* _value        the private field CommandLineParameter._value
\* setValueCalls the arguments of the _setValue calls made so far, in order

-----------------------------------------------------------------------------
(* Bounds of the explored inputs. *)

MaxLongLen == 5
MaxShortLen == 3
MaxArgLen == 3
MaxAlts == 3
MaxSetValueCalls == 2

-----------------------------------------------------------------------------
(* JavaScript values. *)

undefined == <<"undefined">>

\* ToBoolean of a string-or-undefined: undefined and '' are falsy.
Truthy(s) == s # undefined /\ s # <<>>

LowerSeq == <<"a","b","c","d","e","f","g","h","i","j","k","l","m",
              "n","o","p","q","r","s","t","u","v","w","x","y","z">>
UpperSeq == <<"A","B","C","D","E","F","G","H","I","J","K","L","M",
              "N","O","P","Q","R","S","T","U","V","W","X","Y","Z">>

LowerLetters == {LowerSeq[i] : i \in DOMAIN LowerSeq}
UpperLetters == {UpperSeq[i] : i \in DOMAIN UpperSeq}
Digits == {"0","1","2","3","4","5","6","7","8","9"}

\* String.prototype.toUpperCase, one character at a time.
UpperChar(c) ==
  IF c \in LowerLetters
    THEN UpperSeq[CHOOSE i \in DOMAIN LowerSeq : LowerSeq[i] = c]
    ELSE c

toUpperCase(s) == [i \in DOMAIN s |-> UpperChar(s[i])]

\* Array.prototype.indexOf: the first index holding x, or -1 (0-based).
indexOf(arr, x) ==
  IF \E i \in DOMAIN arr : arr[i] = x
    THEN (CHOOSE i \in DOMAIN arr : arr[i] = x /\ \A j \in 1..(i-1) : arr[j] # x) - 1
    ELSE -1

-----------------------------------------------------------------------------
(* The regular expressions. *)

\* [a-z0-9]+ from position i: the position after the longest run.
RECURSIVE LowerAlnumRun(_, _)
LowerAlnumRun(s, i) ==
  IF i <= Len(s) /\ s[i] \in (LowerLetters \cup Digits)
    THEN LowerAlnumRun(s, i + 1)
    ELSE i

\* (-[a-z0-9]+)+$ from position i.
RECURSIVE LongNameGroups(_, _)
LongNameGroups(s, i) ==
  /\ i <= Len(s)
  /\ s[i] = "-"
  /\ LET j == LowerAlnumRun(s, i + 1)
     IN  /\ j > i + 1
         /\ (j = Len(s) + 1 \/ LongNameGroups(s, j))

\* Mutant: the expression without its end anchor, /^-(-[a-z0-9]+)+/.
_longNameRegExpUnanchored(s) ==
  /\ Len(s) >= 3
  /\ s[1] = "-"
  /\ s[2] = "-"
  /\ s[3] \in (LowerLetters \cup Digits)

\* /^-(-[a-z0-9]+)+$/.test(s)
_longNameRegExp(s) ==
  /\ Len(s) >= 1
  /\ s[1] = "-"
  /\ LongNameGroups(s, 2)

\* /^-[a-zA-Z0-9]$/.test(s)
_shortNameRegExp(s) ==
  /\ Len(s) = 2
  /\ s[1] = "-"
  /\ s[2] \in (LowerLetters \cup UpperLetters \cup Digits)

\* s.match(/[^A-Z_0-9]/): the positions of s the expression matches.
InvalidArgumentNamePositions(s) ==
  {i \in DOMAIN s : s[i] \notin (UpperLetters \cup {"_"} \cup Digits)}

\* Mutant: the rightmost match instead of the leftmost.
_invalidArgumentNameRegExpLast(s) ==
  IF InvalidArgumentNamePositions(s) = {}
    THEN undefined
    ELSE LET i == CHOOSE k \in InvalidArgumentNamePositions(s) :
                    \A m \in InvalidArgumentNamePositions(s) : k >= m
         IN  <<s[i]>>

\* match[0] of s.match(/[^A-Z_0-9]/): the leftmost match, or undefined for null.
_invalidArgumentNameRegExp(s) ==
  IF InvalidArgumentNamePositions(s) = {}
    THEN undefined
    ELSE LET i == CHOOSE k \in InvalidArgumentNamePositions(s) :
                    \A m \in InvalidArgumentNamePositions(s) : k <= m
         IN  <<s[i]>>

-----------------------------------------------------------------------------
(* Errors and objects. *)

NoError == [type |-> "none", detail |-> <<>>]

\* new Error(...): the kind of message and the strings it quotes.
Error(type, detail) == [type |-> type, detail |-> detail]

\* What reading a property of undefined throws.
TypeError == [type |-> "TypeError", detail |-> <<>>]

Kinds == {"Choice", "Flag", "Integer", "String", "StringList"}

\* An object none of whose properties has been assigned.
NoObject ==
  [kind |-> "none", longName |-> undefined, shortName |-> undefined,
   description |-> undefined, argumentName |-> undefined,
   alternatives |-> <<>>, defaultValue |-> undefined]

-----------------------------------------------------------------------------
(* The constructors.  Each yields the error it throws (NoError when it     *)
(* returns) and the object as far as it was built.                         *)

\* CommandLineParameter.constructor
CommandLineParameter(def) ==
  IF ~ _longNameRegExp(def.parameterLongName)
    THEN [error |-> Error("LongName", <<def.parameterLongName>>), this |-> NoObject]
  ELSE IF Truthy(def.parameterShortName) /\ ~ _shortNameRegExp(def.parameterShortName)
    THEN [error |-> Error("ShortName", <<def.parameterShortName>>), this |-> NoObject]
  ELSE [error |-> NoError,
        this |-> [NoObject EXCEPT !.longName = def.parameterLongName,
                                  !.shortName = def.parameterShortName,
                                  !.description = def.description]]

\* Mutant: the argument name is validated before the base constructor runs.
CommandLineParameterWithArgumentFirst(def) ==
  LET super == CommandLineParameter(def)
      match == _invalidArgumentNameRegExp(def.argumentName)
  IN  IF def.argumentName = <<>>
        THEN [error |-> Error("EmptyArgumentName", <<>>), this |-> NoObject]
      ELSE IF def.argumentName = undefined
        THEN [error |-> TypeError, this |-> NoObject]
      ELSE IF toUpperCase(def.argumentName) # def.argumentName
        THEN [error |-> Error("ArgumentNameCase", <<def.argumentName>>), this |-> NoObject]
      ELSE IF match # undefined
        THEN [error |-> Error("ArgumentNameCharacter", <<def.argumentName, match>>),
              this |-> NoObject]
      ELSE IF super.error.type # "none"
        THEN super
      ELSE [error |-> NoError,
            this |-> [super.this EXCEPT !.argumentName = def.argumentName]]

\* CommandLineParameterWithArgument.constructor
CommandLineParameterWithArgument(def) ==
  LET super == CommandLineParameter(def)
      match == _invalidArgumentNameRegExp(def.argumentName)
  IN  IF super.error.type # "none"
        THEN super
      ELSE IF def.argumentName = <<>>
        THEN [error |-> Error("EmptyArgumentName", <<>>), this |-> NoObject]
      ELSE IF def.argumentName = undefined
        THEN [error |-> TypeError, this |-> NoObject]
      ELSE IF toUpperCase(def.argumentName) # def.argumentName
        THEN [error |-> Error("ArgumentNameCase", <<def.argumentName>>), this |-> NoObject]
      ELSE IF match # undefined
        THEN [error |-> Error("ArgumentNameCharacter", <<def.argumentName, match>>),
              this |-> NoObject]
      ELSE [error |-> NoError,
            this |-> [super.this EXCEPT !.argumentName = def.argumentName]]

\* Mutant: the choice parameter derives from CommandLineParameterWithArgument.
CommandLineChoiceParameterWithArgument(def) ==
  LET super == CommandLineParameterWithArgument(def)
  IN  IF super.error.type # "none"
        THEN super
      ELSE IF Len(def.alternatives) <= 1
        THEN [error |-> Error("Alternatives", <<>>), this |-> NoObject]
      ELSE IF Truthy(def.defaultValue) /\ indexOf(def.alternatives, def.defaultValue) = -1
        THEN [error |-> Error("DefaultValue", <<def.defaultValue>>), this |-> NoObject]
      ELSE [error |-> NoError,
            this |-> [super.this EXCEPT !.kind = "Choice",
                                        !.alternatives = def.alternatives,
                                        !.defaultValue = def.defaultValue]]

\* Mutant: the alternatives are rejected only when there are none, as the
\* message "must contain at least one value" has it.
CommandLineChoiceParameterAtLeastOne(def) ==
  LET super == CommandLineParameter(def)
  IN  IF super.error.type # "none"
        THEN super
      ELSE IF Len(def.alternatives) < 1
        THEN [error |-> Error("Alternatives", <<>>), this |-> NoObject]
      ELSE IF Truthy(def.defaultValue) /\ indexOf(def.alternatives, def.defaultValue) = -1
        THEN [error |-> Error("DefaultValue", <<def.defaultValue>>), this |-> NoObject]
      ELSE [error |-> NoError,
            this |-> [super.this EXCEPT !.kind = "Choice",
                                        !.alternatives = def.alternatives,
                                        !.defaultValue = def.defaultValue]]

\* CommandLineChoiceParameter.constructor
CommandLineChoiceParameter(def) ==
  LET super == CommandLineParameter(def)
  IN  IF super.error.type # "none"
        THEN super
      ELSE IF Len(def.alternatives) <= 1
        THEN [error |-> Error("Alternatives", <<>>), this |-> NoObject]
      ELSE IF Truthy(def.defaultValue) /\ indexOf(def.alternatives, def.defaultValue) = -1
        THEN [error |-> Error("DefaultValue", <<def.defaultValue>>), this |-> NoObject]
      ELSE [error |-> NoError,
            this |-> [super.this EXCEPT !.kind = "Choice",
                                        !.alternatives = def.alternatives,
                                        !.defaultValue = def.defaultValue]]

\* CommandLineFlagParameter.constructor
CommandLineFlagParameter(def) ==
  LET super == CommandLineParameter(def)
  IN  IF super.error.type # "none"
        THEN super
        ELSE [error |-> NoError, this |-> [super.this EXCEPT !.kind = "Flag"]]

\* CommandLineIntegerParameter.constructor
CommandLineIntegerParameter(def) ==
  LET super == CommandLineParameterWithArgument(def)
  IN  IF super.error.type # "none"
        THEN super
        ELSE [error |-> NoError, this |-> [super.this EXCEPT !.kind = "Integer"]]

\* CommandLineStringParameter.constructor
CommandLineStringParameter(def) ==
  LET super == CommandLineParameterWithArgument(def)
  IN  IF super.error.type # "none"
        THEN super
        ELSE [error |-> NoError, this |-> [super.this EXCEPT !.kind = "String"]]

\* CommandLineStringListParameter.constructor
CommandLineStringListParameter(def) ==
  LET super == CommandLineParameterWithArgument(def)
  IN  IF super.error.type # "none"
        THEN super
        ELSE [error |-> NoError, this |-> [super.this EXCEPT !.kind = "StringList"]]

-----------------------------------------------------------------------------
(* The explored definitions: each family varies one field over every       *)
(* string up to a length and draws the other fields from a few values.     *)

\* Every string of at most n characters of the alphabet.
Strings(alphabet, n) == UNION {[1..k -> alphabet] : k \in 0..n}

LongNameChars == {"-", "a", "1", "A", " "}
ShortNameChars == {"-", "a", "A", "1", "!"}
ArgumentNameChars == {"A", "a", "1", "_", "!", "-"}
AlternativeStrings == {<<>>, <<"a">>, <<"b">>}

SomeLongNames == {<<"-", "-", "a">>, <<"-", "a">>}
SomeShortNames == {undefined, <<>>, <<"-", "a">>, <<"a">>}
SomeArgumentNames == {undefined, <<>>, <<"A">>, <<"a">>, <<"!">>}
SomeAlternatives == {<< <<"a">>, <<"b">> >>, << <<"a">> >>}
SomeDefaultValues == {undefined, <<"a">>, <<"c">>}

Description == <<"d">>

Definition(k, long, short, arg, alts, dflt) ==
  [kind |-> k, parameterLongName |-> long, parameterShortName |-> short,
   description |-> Description, argumentName |-> arg,
   alternatives |-> IF k = "Choice" THEN alts ELSE <<>>,
   defaultValue |-> IF k = "Choice" THEN dflt ELSE undefined]

LongNameDefinitions ==
  {Definition(k, long, undefined, <<"A">>, << <<"a">>, <<"b">> >>, undefined) :
     k \in Kinds, long \in Strings(LongNameChars, MaxLongLen)}

ShortNameDefinitions ==
  {Definition(k, <<"-", "-", "a">>, short, <<"A">>, << <<"a">>, <<"b">> >>, undefined) :
     k \in Kinds, short \in Strings(ShortNameChars, MaxShortLen) \cup {undefined}}

ArgumentNameDefinitions ==
  {Definition(k, <<"-", "-", "a">>, undefined, arg, << <<"a">>, <<"b">> >>, undefined) :
     k \in Kinds, arg \in Strings(ArgumentNameChars, MaxArgLen) \cup {undefined}}

ChoiceDefinitions ==
  {Definition("Choice", <<"-", "-", "a">>, undefined, undefined, alts, dflt) :
     alts \in Strings(AlternativeStrings, MaxAlts),
     dflt \in AlternativeStrings \cup {undefined, <<"c">>}}

MixedDefinitions ==
  {Definition(k, long, short, arg, alts, dflt) :
     k \in Kinds, long \in SomeLongNames, short \in SomeShortNames,
     arg \in SomeArgumentNames, alts \in SomeAlternatives, dflt \in SomeDefaultValues}

Definitions ==
  LongNameDefinitions \cup ShortNameDefinitions \cup ArgumentNameDefinitions
    \cup ChoiceDefinitions \cup MixedDefinitions

\* What the parser may hand to _setValue: any value, whatever the kind.
Payloads ==
  {undefined, <<"boolean", "true">>, <<"boolean", "false">>, <<"number", "7">>,
   <<"string", "x">>, <<"list", "x", "y">>, <<"list", "y", "x">>}

-----------------------------------------------------------------------------
(* The state machine: a definition is handed to the constructor of its     *)
(* kind; the external parser then calls _setValue on the object.           *)

Init ==
  /\ pc = "defined"
  /\ definition \in Definitions
  /\ parameter = NoObject
  /\ error = NoError
  /\ _value = undefined
  /\ setValueCalls = <<>>

\* new C(definition): the object exists only if the constructor returns.
New(kind, result) ==
  /\ pc = "defined"
  /\ definition.kind = kind
  /\ error' = result.error
  /\ parameter' = result.this
  /\ pc' = IF result.error.type = "none" THEN "constructed" ELSE "failed"
  /\ UNCHANGED <<definition, _value, setValueCalls>>

NewChoice == New("Choice", CommandLineChoiceParameter(definition))
NewFlag == New("Flag", CommandLineFlagParameter(definition))
NewInteger == New("Integer", CommandLineIntegerParameter(definition))
NewString == New("String", CommandLineStringParameter(definition))
NewStringList == New("StringList", CommandLineStringListParameter(definition))

\* Mutant: a write-once slot, the first value is kept.
_setValueOnce(data) ==
  /\ pc = "constructed"
  /\ Len(setValueCalls) < MaxSetValueCalls
  /\ _value' = IF _value = undefined THEN data ELSE _value
  /\ setValueCalls' = Append(setValueCalls, data)
  /\ UNCHANGED <<pc, definition, parameter, error>>

\* Mutant: a payload is stored only if its type is the one of the kind.
_setValueTypeChecked(data) ==
  /\ pc = "constructed"
  /\ Len(setValueCalls) < MaxSetValueCalls
  /\ _value' = IF \/ parameter.kind = "Flag" /\ data[1] = "boolean"
                  \/ parameter.kind = "Integer" /\ data[1] = "number"
                  \/ parameter.kind \in {"String", "Choice"} /\ data[1] = "string"
                  \/ parameter.kind = "StringList" /\ data[1] = "list"
                 THEN data
                 ELSE _value
  /\ setValueCalls' = Append(setValueCalls, data)
  /\ UNCHANGED <<pc, definition, parameter, error>>

\* CommandLineParameter._setValue
_setValue(data) ==
  /\ pc = "constructed"
  /\ Len(setValueCalls) < MaxSetValueCalls
  /\ _value' = data
  /\ setValueCalls' = Append(setValueCalls, data)
  /\ UNCHANGED <<pc, definition, parameter, error>>

SetValue == \E data \in Payloads : _setValue(data)

\* CommandLineParameter.value (the accessor)
value == _value

Next ==
  \/ NewChoice
  \/ NewFlag
  \/ NewInteger
  \/ NewString
  \/ NewStringList
  \/ SetValue

Spec == Init /\ [][Next]_vars

-----------------------------------------------------------------------------
(* The grammars and preconditions as the specification words them, written *)
(* without the operators that model the code.                              *)

Constructed == pc = "constructed"
Failed == pc = "failed"
Decided == pc # "defined"

ArgumentKinds == {"Integer", "String", "StringList"}

Range(seq) == {seq[i] : i \in DOMAIN seq}

\* One leading dash, then one or more dash-delimited non-empty segments of
\* lower-case letters and digits.
LongNameGrammar(s) ==
  /\ Len(s) >= 3
  /\ s[1] = "-"
  /\ s[2] = "-"
  /\ s[Len(s)] # "-"
  /\ \A i \in 2..Len(s) : s[i] \in ({"-"} \cup LowerLetters \cup Digits)
  /\ \A i \in 2..(Len(s) - 1) : ~ (s[i] = "-" /\ s[i + 1] = "-")

\* A dash followed by exactly one letter or digit.
ShortNameGrammar(s) ==
  \E c \in (LowerLetters \cup UpperLetters \cup Digits) : s = <<"-", c>>

ArgumentNameAllowed == UpperLetters \cup Digits \cup {"_"}

\* Non-empty and made of upper-case letters, digits and underscores only.
ArgumentNameGrammar(s) ==
  /\ s # <<>>
  /\ \A i \in DOMAIN s : s[i] \in ArgumentNameAllowed

HasLowerCase(s) == \E i \in DOMAIN s : s[i] \in LowerLetters

ShortNameOk(def) ==
  def.parameterShortName = undefined \/ ShortNameGrammar(def.parameterShortName)

NamesOk(def) == LongNameGrammar(def.parameterLongName) /\ ShortNameOk(def)

ArgumentNameOk(def) ==
  def.kind \in ArgumentKinds =>
    (def.argumentName # undefined /\ ArgumentNameGrammar(def.argumentName))

ChoiceOk(def) ==
  def.kind = "Choice" =>
    /\ Len(def.alternatives) >= 2
    /\ (def.defaultValue = undefined \/ def.defaultValue \in Range(def.alternatives))

-----------------------------------------------------------------------------
(* C1 *)

\* C1: with the other fields valid, construction of any kind succeeds and
\* stores the long name unchanged when the long name matches -(-[a-z0-9]+)+,
\* and every long name that does not match makes construction fail with the
\* long-name error.
C1_LongNameDecides ==
  Decided =>
    IF LongNameGrammar(definition.parameterLongName)
      THEN (ShortNameOk(definition) /\ ArgumentNameOk(definition) /\ ChoiceOk(definition))
             => /\ Constructed
                /\ error = NoError
                /\ parameter.longName = definition.parameterLongName
      ELSE /\ Failed
           /\ error.type = "LongName"
           /\ error.detail = <<definition.parameterLongName>>

C1_Witness ==
  /\ Constructed
  /\ parameter.kind = "StringList"
  /\ parameter.longName = <<"-", "-", "a", "-", "1">>

-----------------------------------------------------------------------------
(* C2 *)

\* C2: with a valid long name (and the other fields valid), construction
\* succeeds exactly when the short name is absent or is a dash followed by
\* one letter or digit; any other supplied short name fails with the
\* short-name error, and no constructed parameter has a short name that is
\* present and outside the grammar.
C2_ShortNameDecides ==
  (/\ Decided
   /\ LongNameGrammar(definition.parameterLongName)
   /\ ArgumentNameOk(definition)
   /\ ChoiceOk(definition))
    => /\ Constructed <=> ShortNameOk(definition)
       /\ Failed => error.type = "ShortName"
       /\ Constructed =>
            (parameter.shortName = undefined \/ ShortNameGrammar(parameter.shortName))

-----------------------------------------------------------------------------
(* C3 *)

\* C3: an argument-bearing parameter (Integer, String, StringList) with valid
\* names and argumentName absent is constructed, and its argumentName reads
\* absent.
C3_AbsentArgumentNameAccepted ==
  (/\ Decided
   /\ definition.kind \in ArgumentKinds
   /\ NamesOk(definition)
   /\ definition.argumentName = undefined)
    => /\ Constructed
       /\ parameter.argumentName = undefined

-----------------------------------------------------------------------------
(* C4 *)

-----------------------------------------------------------------------------
(* C5 *)

\* C5: for a Choice definition with valid names and at least two
\* alternatives, a supplied default value (any string) that is not one of the
\* alternatives makes construction fail with the default-value error, so a
\* constructed Choice has its default absent or among its alternatives.
C5_DefaultAmongAlternatives ==
  (/\ Decided
   /\ definition.kind = "Choice"
   /\ NamesOk(definition)
   /\ Len(definition.alternatives) >= 2)
    => /\ (/\ definition.defaultValue # undefined
           /\ definition.defaultValue \notin Range(definition.alternatives))
            => (Failed /\ error.type = "DefaultValue")
       /\ Constructed =>
            \/ parameter.defaultValue = undefined
            \/ parameter.defaultValue \in Range(parameter.alternatives)

-----------------------------------------------------------------------------
(* C6 *)

Last(seq) == seq[Len(seq)]

\* C6 as stated: the value slot is write-once: over any sequence of
\* _setValue calls a value that is set is never replaced by a different value
\* nor returned to unset.
C6_WriteOnce == [][_value # undefined => _value' = _value]_vars

\* C6 amended: the value slot changes only by a _setValue call, and every
\* _setValue call stores its payload whatever the slot held before, so the
\* slot goes from unset to set at most once only if the parser calls
\* _setValue once; a later call replaces the value.
C6_EveryCallOverwrites ==
  [][/\ setValueCalls' = setValueCalls => _value' = _value
     /\ setValueCalls' # setValueCalls =>
          /\ Len(setValueCalls') = Len(setValueCalls) + 1
          /\ _value' = Last(setValueCalls')]_vars

C6_Witness ==
  /\ Constructed
  /\ setValueCalls = << <<"string", "x">>, <<"number", "7">> >>
  /\ _value = <<"number", "7">>

-----------------------------------------------------------------------------
(* C7 *)

-----------------------------------------------------------------------------
(* C8 *)

\* The leftmost character of s outside [A-Z0-9_], as a string.
LeftmostDisallowed(s) ==
  LET i == CHOOSE k \in DOMAIN s :
             /\ s[k] \notin ArgumentNameAllowed
             /\ \A j \in 1..(k - 1) : s[j] \in ArgumentNameAllowed
  IN  <<s[i]>>

\* C8: for an argument-bearing kind with valid names and a supplied
\* argumentName: the empty string fails with the empty-name error; a name
\* that differs from its upper-cased form fails with the case error; a name
\* equal to its upper-cased form with a character outside [A-Z0-9_] fails
\* with the invalid-character error naming the leftmost such character; any
\* other name is accepted and stored unchanged.
C8_ArgumentNameDecides ==
  (/\ Decided
   /\ definition.kind \in ArgumentKinds
   /\ NamesOk(definition)
   /\ definition.argumentName # undefined)
    => LET name == definition.argumentName
       IN  IF name = <<>>
             THEN Failed /\ error.type = "EmptyArgumentName"
           ELSE IF HasLowerCase(name)
             THEN Failed /\ error.type = "ArgumentNameCase"
                         /\ error.detail = <<name>>
           ELSE IF ~ ArgumentNameGrammar(name)
             THEN Failed /\ error.type = "ArgumentNameCharacter"
                         /\ error.detail = <<name, LeftmostDisallowed(name)>>
           ELSE Constructed /\ error = NoError /\ parameter.argumentName = name

C8_Witness ==
  /\ Failed
  /\ definition.kind = "Integer"
  /\ definition.argumentName = <<"A", "!", "-">>
  /\ error.type = "ArgumentNameCharacter"
  /\ error.detail[2] = <<"!">>

-----------------------------------------------------------------------------
(* C9 *)

-----------------------------------------------------------------------------
(* C10 *)

\* The checks of an argument-bearing constructor that the definition fails,
\* numbered in their order: 1 long name, 2 short name (made only of a
\* non-empty short name), 3 empty argument name, 4 argument-name case,
\* 5 argument-name character.
FailedChecks(def) ==
  LET short == def.parameterShortName
      name == def.argumentName
  IN  {n \in 1..5 :
         \/ n = 1 /\ ~ LongNameGrammar(def.parameterLongName)
         \/ n = 2 /\ short # undefined /\ short # <<>> /\ ~ ShortNameGrammar(short)
         \/ n = 3 /\ name = <<>>
         \/ n = 4 /\ name # undefined /\ HasLowerCase(name)
         \/ n = 5 /\ name # undefined /\ name # <<>> /\ ~ ArgumentNameGrammar(name)}

CheckErrors ==
  <<"LongName", "ShortName", "EmptyArgumentName", "ArgumentNameCase",
    "ArgumentNameCharacter">>

\* C10: when a definition of an argument-bearing kind fails more than one
\* check, construction fails with the error of the first failed check in the
\* order long name, short name, empty argument name, argument-name case,
\* argument-name character.
C10_FirstFailedCheckReported ==
  (/\ Decided
   /\ definition.kind \in ArgumentKinds
   /\ Cardinality(FailedChecks(definition)) >= 2)
    => /\ Failed
       /\ \E n \in FailedChecks(definition) :
            /\ \A m \in FailedChecks(definition) : n <= m
            /\ error.type = CheckErrors[n]

C10_Witness ==
  /\ Failed
  /\ definition.kind = "String"
  /\ FailedChecks(definition) = {1, 2, 4, 5}
  /\ error.type = "LongName"

====
